---- MODULE Spec2Model ----
(***************************************************************************)
(* Model of examples/fps.rs: a first-person camera (Cam) and the Stage     *)
(* event handler that uploads a fixed list of instance positions and       *)
(* issues one instanced draw per frame.                                    *)
(*                                                                         *)
(* f32 values are modelled as fixed-point integers with FP units per 1.0   *)
(* (so 0.01 is 1, 0.1 is 10, 89.0 is 8900, 360.0 is 36000).  Only finite   *)
(* values are modelled; rounding of f32 arithmetic is not.                 *)
(***************************************************************************)
EXTENDS Integers, Sequences, FiniteSets, TLC

\* Fixed-point units per 1.0 of an f32.
FP == 100

(***************************************************************************)
(* f32 arithmetic on fixed-point values.                                   *)
(***************************************************************************)
Abs(a) == IF a < 0 THEN -a ELSE a

\* Division rounding toward zero (sign-symmetric, as f32 rounding is).
TruncDiv(a, b) ==
    IF (a >= 0) = (b > 0) THEN Abs(a) \div Abs(b) ELSE -(Abs(a) \div Abs(b))

\* f32 `*`
Mul(a, b) == TruncDiv(a * b, FP)

\* f32 `/`
Div(a, b) == TruncDiv(a * FP, b)

\* f32 `%`: the remainder of the truncated division; it has the sign of
\* the dividend (Rust's `%` is fmod, not a floor modulo).
Rem(a, b) == IF a >= 0 THEN a % b ELSE -((-a) % b)

\* f32::max / f32::min
Max(a, b) == IF a >= b THEN a ELSE b
Min(a, b) == IF a <= b THEN a ELSE b

\* glam::vec3
vec3(x, y, z) == [x |-> x, y |-> y, z |-> z]

\* Vec3::zero
Vec3Zero == vec3(0, 0, 0)

\* Vec3 + Vec3
Vec3Add(a, b) == vec3(a.x + b.x, a.y + b.y, a.z + b.z)

\* f32::sqrt of s: the largest r in lo..hi with r * r <= s, by bisection.
RECURSIVE ISqrt(_, _, _)
ISqrt(s, lo, hi) ==
    IF lo >= hi THEN lo
    ELSE LET mid == (lo + hi + 1) \div 2
         IN  IF mid * mid <= s THEN ISqrt(s, mid, hi) ELSE ISqrt(s, lo, mid - 1)

\* Vec3::length: sqrt(x^2 + y^2 + z^2).  For fixed-point components the
\* sum of squares is in FP^2 units, so its root is again in FP units.
Length(p) ==
    ISqrt(p.x * p.x + p.y * p.y + p.z * p.z, 0, Abs(p.x) + Abs(p.y) + Abs(p.z))

(***************************************************************************)
(* deg.to_radians().sin() and deg.to_radians().cos(), on fixed-point       *)
(* degrees.  The angle is reduced to [0, 360) degrees, then to a half      *)
(* period, and Bhaskara's rational approximation is applied; it is exact   *)
(* at 0, 30, 90, 150 and 180 degrees.                                      *)
(***************************************************************************)
HalfSin(d) ==
    LET p == d * (180 * FP - d)
    IN  (4 * p) \div ((40500 * FP * FP - p) \div FP)

SinDeg(d) ==
    LET r == d % (360 * FP)
    IN  IF r <= 180 * FP THEN HalfSin(r) ELSE -HalfSin(r - 180 * FP)

CosDeg(d) == SinDeg(d + 90 * FP)

(***************************************************************************)
(* Cam                                                                     *)
(***************************************************************************)
\* #[derive(Default)] struct Cam
CamDefault == [pitch_deg |-> 0, yaw_deg |-> 0]

\* Cam::facing with the sine and cosine of the yaw exchanged.
facing_yaw_swapped(c) ==
    vec3(Mul(CosDeg(c.yaw_deg), CosDeg(c.pitch_deg)),
         SinDeg(c.pitch_deg),
         Mul(SinDeg(c.yaw_deg), CosDeg(c.pitch_deg)))

\* Cam::facing
facing(c) ==
    vec3(Mul(SinDeg(c.yaw_deg), CosDeg(c.pitch_deg)),
         SinDeg(c.pitch_deg),
         Mul(CosDeg(c.yaw_deg), CosDeg(c.pitch_deg)))

\* Cam::turn without the lower pitch limit.
turn_clamp_upper_only(c, pitch_delta_deg, yaw_delta_deg) ==
    [pitch_deg |-> Min(c.pitch_deg + pitch_delta_deg, 89 * FP),
     yaw_deg   |-> Rem(c.yaw_deg + yaw_delta_deg, 360 * FP)]

\* Cam::turn with a floor modulo for the remainder.
turn_floor_mod(c, pitch_delta_deg, yaw_delta_deg) ==
    [pitch_deg |-> Min(Max(c.pitch_deg + pitch_delta_deg, -(89 * FP)), 89 * FP),
     yaw_deg   |-> (c.yaw_deg + yaw_delta_deg) % (360 * FP)]

\* Cam::turn wrapping the yaw at half a turn.
turn_wrap_half(c, pitch_delta_deg, yaw_delta_deg) ==
    [pitch_deg |-> Min(Max(c.pitch_deg + pitch_delta_deg, -(89 * FP)), 89 * FP),
     yaw_deg   |-> Rem(c.yaw_deg + yaw_delta_deg, 180 * FP)]

\* Cam::turn wrapping the yaw at two turns.
turn_wrap_double(c, pitch_delta_deg, yaw_delta_deg) ==
    [pitch_deg |-> Min(Max(c.pitch_deg + pitch_delta_deg, -(89 * FP)), 89 * FP),
     yaw_deg   |-> Rem(c.yaw_deg + yaw_delta_deg, 720 * FP)]

\* Cam::turn
turn(c, pitch_delta_deg, yaw_delta_deg) ==
    [pitch_deg |-> Min(Max(c.pitch_deg + pitch_delta_deg, -(89 * FP)), 89 * FP),
     yaw_deg   |-> Rem(c.yaw_deg + yaw_delta_deg, 360 * FP)]

(***************************************************************************)
(* Context and Buffer: the parts of the library the handlers call.  A      *)
(* Context records the viewport size, the cursor grab flag, the contents   *)
(* of the GPU buffers (by buffer id) and the calls the running callback    *)
(* has issued on it, in order.  A Buffer is a handle: id, usage and size   *)
(* in bytes.                                                               *)
(***************************************************************************)
Call(ctx, op, args) ==
    [ctx EXCEPT !.calls = Append(@, [op |-> op, args |-> args])]

\* Context::set_cursor_grab
set_cursor_grab(ctx, grab) ==
    Call([ctx EXCEPT !.cursor_grab = grab], "set_cursor_grab", <<grab>>)

\* Context::screen_size
screen_size(ctx) == ctx.screen_size

\* Buffer::immutable: a buffer sized to hold the data it is created with.
BufferImmutable(id, data, elem_size) ==
    [id |-> id, usage |-> "immutable", size |-> Len(data) * elem_size]

\* Buffer::stream: an empty buffer of `size` bytes.
BufferStream(id, size) == [id |-> id, usage |-> "stream", size |-> size]

\* Buffer::update: overwrite the buffer's contents with `data`.
BufferUpdate(buf, ctx, data) ==
    Call([ctx EXCEPT !.buffer_data[buf.id] = data], "buffer_update", <<buf.id>>)

\* Mat4::perspective_rh_gl, Mat4::look_at_rh and Mat4 * Mat4 are kept as
\* terms over their arguments (the field of view stays in degrees).
perspective_rh_gl(fov_y_deg, aspect, z_near, z_far) ==
    [fn |-> "perspective_rh_gl", fov_y_deg |-> fov_y_deg, aspect |-> aspect,
     z_near |-> z_near, z_far |-> z_far]

look_at_rh(eye, center, up) ==
    [fn |-> "look_at_rh", eye |-> eye, center |-> center, up |-> up]

Mat4Mul(a, b) == [fn |-> "mul", lhs |-> a, rhs |-> b]

(***************************************************************************)
(* Stage                                                                   *)
(***************************************************************************)
MAX_OBSTACLES == 512 * 1024

\* std::mem::size_of::<Vec3>(): three f32.
SizeOfVec3 == 12

\* The vertex data of Stage::new: 6 vertices of 3 position + 4 color floats
\* (r = 0.3 is 30 in fixed point).
vertices ==
    LET r == 30
    IN  << 0, -r,  0,    FP,  0,  0, FP,
           r,  0,  r,     0, FP,  0, FP,
           r,  0, -r,     0,  0, FP, FP,
          -r,  0, -r,    FP, FP,  0, FP,
          -r,  0,  r,     0, FP, FP, FP,
           0,  r,  0,    FP,  0, FP, FP >>

\* The index data of Stage::new: 8 triangles.
indices ==
    << 0, 1, 2,    0, 2, 3,    0, 3, 4,    0, 4, 1,
       5, 1, 2,    5, 2, 3,    5, 3, 4,    5, 4, 1 >>

\* The inner loop of Stage::new keeping the origin too (`>=` for `>`).
RECURSIVE InnerLoopKeepOrigin(_, _)
InnerLoopKeepOrigin(x, y) ==
    IF y >= 10 THEN <<>>
    ELSE LET p == vec3(x * FP, 0, y * FP)
         IN  (IF Length(p) >= 0 THEN <<p>> ELSE <<>>)
               \o InnerLoopKeepOrigin(x, y + 1)

\* The inner loop of Stage::new (`for y in 0..10`): the points it pushes
\* for one x from iteration y on, in order.
RECURSIVE InnerLoop(_, _)
InnerLoop(x, y) ==
    IF y >= 10 THEN <<>>
    ELSE LET p == vec3(x * FP, 0, y * FP)
         IN  (IF Length(p) > 0 THEN <<p>> ELSE <<>>) \o InnerLoop(x, y + 1)

\* The outer loop of Stage::new (`for x in 0..10`): the points pushed
\* from iteration x on, in order.
RECURSIVE OuterLoop(_)
OuterLoop(x) ==
    IF x >= 10 THEN <<>> ELSE InnerLoop(x, 0) \o OuterLoop(x + 1)

\* Stage::new: the Stage it returns.  The buffers get ids 1 (geometry),
\* 2 (indices) and 3 (instance positions), in creation order.
new ==
    [bindings  |-> [vertex_buffers |-> << BufferImmutable(1, vertices, 4),
                                          BufferStream(3, MAX_OBSTACLES * SizeOfVec3) >>,
                    index_buffer   |-> BufferImmutable(2, indices, 2),
                    images         |-> <<>>],
     obstacles |-> OuterLoop(0),
     pos       |-> Vec3Zero,
     cam       |-> CamDefault]

\* The contents of the buffers Stage::new creates.
NewBufferData == << vertices, indices, <<>> >>

\* Stage::update uploading the list without its last position.
update_partial(self, ctx) ==
    LET ctx1 == set_cursor_grab(ctx, TRUE)
    IN  [self |-> self,
         ctx  |-> BufferUpdate(self.bindings.vertex_buffers[2], ctx1,
                               SubSeq(self.obstacles, 1, Len(self.obstacles) - 1))]

\* Stage::update draining the list after the upload.
update_drains_obstacles(self, ctx) ==
    LET ctx1 == set_cursor_grab(ctx, TRUE)
    IN  [self |-> [self EXCEPT !.obstacles = <<>>],
         ctx  |-> BufferUpdate(self.bindings.vertex_buffers[2], ctx1,
                               self.obstacles)]

\* Stage::update.  vertex_buffers[1] of the source is the second buffer.
update(self, ctx) ==
    LET ctx1 == set_cursor_grab(ctx, TRUE)
    IN  [self |-> self,
         ctx  |-> BufferUpdate(self.bindings.vertex_buffers[2], ctx1,
                               self.obstacles)]

\* Stage::mouse_delta_event without the sign inversion of the horizontal axis.
mouse_delta_event_no_invert(self, ctx, x, y) ==
    [self |-> [self EXCEPT !.cam = turn(self.cam, Mul(y, 10), Mul(x, 10))],
     ctx  |-> ctx]

\* Stage::mouse_delta_event.  The factor 0.1 is 10 in fixed point.
mouse_delta_event(self, ctx, x, y) ==
    [self |-> [self EXCEPT !.cam = turn(self.cam, Mul(y, 10), Mul(-x, 10))],
     ctx  |-> ctx]

\* Stage::draw committing the frame before the pass is ended.
draw_commit_in_pass(self, ctx) ==
    LET c1 == Call(ctx, "begin_default_pass", <<>>)
        c2 == Call(c1, "apply_pipeline", <<>>)
        c3 == Call(c2, "apply_bindings", <<>>)
        c4 == Call(c3, "apply_uniforms", <<>>)
        c5 == Call(c4, "draw", <<0, 24, Len(self.obstacles)>>)
        c6 == Call(c5, "commit_frame", <<>>)
        c7 == Call(c6, "end_render_pass", <<>>)
    IN  [self |-> self, ctx |-> c7]

\* Stage::draw.  The near distance 0.01 is 1 in fixed point.
draw(self, ctx) ==
    LET size      == screen_size(ctx)
        width     == size[1]
        height    == size[2]
        proj      == perspective_rh_gl(45 * FP, Div(width, height), 1, 50 * FP)
        view      == look_at_rh(self.pos,
                                Vec3Add(self.pos, facing(self.cam)),
                                vec3(0, FP, 0))
        view_proj == Mat4Mul(proj, view)
        c1 == Call(ctx, "begin_default_pass", <<>>)
        c2 == Call(c1, "apply_pipeline", <<>>)
        c3 == Call(c2, "apply_bindings", <<>>)
        c4 == Call(c3, "apply_uniforms", <<view_proj>>)
        c5 == Call(c4, "draw", <<0, 24, Len(self.obstacles)>>)
        c6 == Call(c5, "end_render_pass", <<>>)
        c7 == Call(c6, "commit_frame", <<>>)
    IN  [self |-> self, ctx |-> c7]

(***************************************************************************)
(* The program: the host creates the Stage and then dispatches callbacks   *)
(* on it, one at a time, on one thread.                                    *)
(***************************************************************************)
VARIABLES
    stage,       \* the Stage
    ctx,         \* the Context
    event,       \* the callback dispatched last, with its arguments
    phase,       \* the per-tick callback that follows: "update" or "draw"
    input_seen   \* whether a mouse_delta_event has been dispatched

vars == <<stage, ctx, event, phase, input_seen>>

\* The largest number of whole turns one pointer motion spins the camera.
MaxSpins == 1

\* Pointer motion deltas (dx and dy, in pixels) the host may deliver: at
\* 0.1 degree per pixel, 3600 pixels are one whole turn.
MouseDX ==
    {-(7500 * FP), 0, 900 * FP}
      \cup {k * 3600 * FP : k \in (-MaxSpins)..MaxSpins}
MouseDY == {-(1000 * FP), 0, 500 * FP}

\* Viewport sizes (width, height) the window may have.
ScreenSizes == { <<800 * FP, 600 * FP>>, <<600 * FP, 600 * FP>> }

\* The host starts every callback with an empty call record.
Dispatch(c) == [c EXCEPT !.calls = <<>>]

Init ==
    /\ stage = new
    /\ ctx \in { [screen_size |-> s, cursor_grab |-> FALSE,
                  buffer_data |-> NewBufferData, calls |-> <<>>]
                 : s \in ScreenSizes }
    /\ event = [cb |-> "new", args |-> <<>>]
    /\ phase = "update"
    /\ input_seen = FALSE

Update ==
    LET r == update(stage, Dispatch(ctx))
    IN  /\ stage' = r.self
        /\ ctx' = r.ctx
        /\ event' = [cb |-> "update", args |-> <<>>]
        /\ phase' = "draw"
        /\ UNCHANGED input_seen

MouseDeltaEvent ==
    \E x \in MouseDX, y \in MouseDY :
        LET r == mouse_delta_event(stage, Dispatch(ctx), x, y)
        IN  /\ stage' = r.self
            /\ ctx' = r.ctx
            /\ event' = [cb |-> "mouse_delta_event", args |-> <<x, y>>]
            /\ input_seen' = TRUE
            /\ UNCHANGED phase

Draw ==
    LET r == draw(stage, Dispatch(ctx))
    IN  /\ stage' = r.self
        /\ ctx' = r.ctx
        /\ event' = [cb |-> "draw", args |-> <<>>]
        /\ phase' = "update"
        /\ UNCHANGED input_seen

\* The window is resized; Stage does not override resize_event.
ResizeEvent ==
    \E s \in ScreenSizes :
        /\ ctx' = [Dispatch(ctx) EXCEPT !.screen_size = s]
        /\ event' = [cb |-> "resize_event", args |-> s]
        /\ UNCHANGED <<stage, phase, input_seen>>

\* Callbacks in any order.
Next == Update \/ MouseDeltaEvent \/ Draw \/ ResizeEvent

Spec == Init /\ [][Next]_vars

\* The host's loop: each tick runs update, then draw; input and resize
\* events arrive between callbacks.
TickUpdate == phase = "update" /\ Update

TickDraw == phase = "draw" /\ Draw

TickNext == TickUpdate \/ TickDraw \/ MouseDeltaEvent \/ ResizeEvent

TickSpec == Init /\ [][TickNext]_vars

(***************************************************************************)
(* Properties                                                              *)
(***************************************************************************)
cam == stage.cam

IsMouse(e) == e.cb = "mouse_delta_event"

\* The buffer bound as the per-instance vertex stream, and its contents.
positions_vertex_buffer == stage.bindings.vertex_buffers[2]

PositionsData == ctx.buffer_data[positions_vertex_buffer.id]

\* C1: pitch_deg is within [-89, 89] in every reachable state.
PitchWithinLimits ==
    /\ -(89 * FP) <= cam.pitch_deg
    /\ cam.pitch_deg <= 89 * FP

\* An upward motion has just been cut off at the upper limit.
PitchClampedAtLimit ==
    /\ IsMouse(event)
    /\ event.args[2] > 0
    /\ cam.pitch_deg = 89 * FP

\* C2 (as stated): 0 <= yaw_deg < 360 in every reachable state.
YawInZeroTo360 ==
    /\ 0 <= cam.yaw_deg
    /\ cam.yaw_deg < 360 * FP

\* C2 (amended): after a turn the stored yaw has the sign of the sum
\* yaw_deg + yaw_delta_deg: it is in [0, 360) when the sum is not negative
\* and in (-360, 0] when the sum is negative.
YawSignFollowsSum ==
    [][IsMouse(event') =>
         LET sum == cam.yaw_deg + Mul(-event'.args[1], 10)
             yaw == stage'.cam.yaw_deg
         IN  /\ sum >= 0 => (0 <= yaw /\ yaw < 360 * FP)
             /\ sum < 0  => (-(360 * FP) < yaw /\ yaw <= 0)]_vars

\* A turn has left the stored yaw negative.
YawNegative ==
    /\ IsMouse(event)
    /\ cam.yaw_deg < 0

\* C3: turn(0, 360) leaves pitch_deg unchanged, yaw_deg congruent modulo
\* 360 and the direction returned by facing() the same.
FullTurnKeepsFacing ==
    [][(IsMouse(event') /\ event'.args = <<-(3600 * FP), 0>>) =>
         /\ stage'.cam.pitch_deg = cam.pitch_deg
         /\ (stage'.cam.yaw_deg - cam.yaw_deg) % (360 * FP) = 0
         /\ facing(stage'.cam) = facing(cam)]_vars

\* A full turn has been applied to a camera that looks up and sideways.
FullTurnApplied ==
    /\ event = [cb |-> "mouse_delta_event", args |-> <<-(3600 * FP), 0>>]
    /\ cam.yaw_deg = 270 * FP
    /\ cam.pitch_deg = 39 * FP

\* C4: the instance-position list holds exactly 99 points: every (x, 0, z)
\* with x, z in 0..9 except the origin, each exactly once.
ObstaclesAreGridMinusOrigin ==
    LET obs == stage.obstacles
    IN  /\ Len(obs) = 99
        /\ \A i \in 1..Len(obs) :
             /\ obs[i] # [x |-> 0, y |-> 0, z |-> 0]
             /\ obs[i].y = 0
             /\ \E x \in 0..9, z \in 0..9 :
                  obs[i].x = x * FP /\ obs[i].z = z * FP
        /\ \A x \in 0..9, z \in 0..9 :
             (x # 0 \/ z # 0) =>
               Cardinality({i \in 1..Len(obs) :
                   obs[i] = [x |-> x * FP, y |-> 0, z |-> z * FP]}) = 1

\* Stage::new has built the list, from (0, 0, 1) to (9, 0, 9).
ObstaclesBuilt ==
    /\ Len(stage.obstacles) = 99
    /\ stage.obstacles[1] = [x |-> 0, y |-> 0, z |-> FP]
    /\ stage.obstacles[99] = [x |-> 9 * FP, y |-> 0, z |-> 9 * FP]

\* C5: mouse_delta_event(dx, dy) leaves the camera as turn(dy * 0.1,
\* -dx * 0.1) does: vertical motion drives pitch, horizontal motion drives
\* yaw with its sign inverted.
MouseMapsToTurn ==
    [][IsMouse(event') =>
         LET dx == event'.args[1]
             dy == event'.args[2]
             pitch_sum == cam.pitch_deg + TruncDiv(dy, 10)
             yaw_sum   == cam.yaw_deg - TruncDiv(dx, 10)
         IN  /\ stage'.cam = turn(cam, TruncDiv(dy, 10), -TruncDiv(dx, 10))
             /\ (-(89 * FP) <= pitch_sum /\ pitch_sum <= 89 * FP)
                  => stage'.cam.pitch_deg = pitch_sum
             /\ (stage'.cam.yaw_deg - yaw_sum) % (360 * FP) = 0]_vars

\* The pointer has moved right and down from the initial camera.
MouseMovedBothAxes ==
    /\ event = [cb |-> "mouse_delta_event", args |-> <<900 * FP, 500 * FP>>]
    /\ cam = [pitch_deg |-> 50 * FP, yaw_deg |-> -(90 * FP)]

\* C6: with no mouse input, every draw computes its view from eye
\* (0,0,0), target (0,0,1) and up (0,1,0) with the camera at pitch 0 and
\* yaw 0, and its projection from 45 degrees, near 0.01 and far 50.
NoInputDrawLooksForward ==
    (~input_seen /\ event.cb = "draw") =>
        /\ cam = [pitch_deg |-> 0, yaw_deg |-> 0]
        /\ ctx.calls[4].op = "apply_uniforms"
        /\ LET view_proj == ctx.calls[4].args[1]
           IN  /\ view_proj.fn = "mul"
               /\ view_proj.rhs = [fn     |-> "look_at_rh",
                                   eye    |-> [x |-> 0, y |-> 0, z |-> 0],
                                   center |-> [x |-> 0, y |-> 0, z |-> FP],
                                   up     |-> [x |-> 0, y |-> FP, z |-> 0]]
               /\ view_proj.lhs.fn = "perspective_rh_gl"
               /\ view_proj.lhs.fov_y_deg = 45 * FP
               /\ view_proj.lhs.z_near * 100 = FP
               /\ view_proj.lhs.z_far = 50 * FP

\* A frame has been drawn after an update and before any mouse input.
DrawnWithoutInput ==
    /\ ~input_seen
    /\ event.cb = "draw"
    /\ ctx.cursor_grab

\* C7: the only state of the Stage that changes is the camera, and only
\* in mouse_delta_event: update and draw leave it unchanged, the viewer
\* position stays (0,0,0) and the instance-position list stays the list
\* generated at startup.
OnlyMouseTurnsCamera ==
    [][/\ stage' = [stage EXCEPT !.cam = stage'.cam]
       /\ stage'.cam # cam => IsMouse(event')
       /\ event'.cb \in {"update", "draw"} => stage'.cam = cam
       /\ stage'.pos = [x |-> 0, y |-> 0, z |-> 0]
       /\ stage'.obstacles = new.obstacles]_vars

\* A frame has been drawn after the camera was turned and the list uploaded.
DrawnAfterTurn ==
    /\ event.cb = "draw"
    /\ input_seen
    /\ cam.pitch_deg # 0
    /\ cam.yaw_deg # 0
    /\ Len(PositionsData) > 0

\* C8: every update leaves the per-instance buffer holding the complete
\* list, and at every draw the buffer holds the list's 99 positions, the
\* instance count of the draw call is the number of positions in the
\* buffer, and that count fits the buffer's capacity of MAX_OBSTACLES.
InstanceBufferHoldsList ==
    /\ event.cb = "update" => PositionsData = stage.obstacles
    /\ event.cb = "draw" =>
         LET num_instances == ctx.calls[5].args[3]
         IN  /\ PositionsData = stage.obstacles
             /\ Len(PositionsData) = 99
             /\ num_instances = Len(PositionsData)
             /\ num_instances <= MAX_OBSTACLES
             /\ num_instances * SizeOfVec3 <= positions_vertex_buffer.size

\* A tick has completed: update, input, then draw.
TickCompleted ==
    /\ event.cb = "draw"
    /\ phase = "update"
    /\ input_seen
    /\ Len(PositionsData) = 99

\* Whether a render pass is open when call i of the callback is issued.
PassOpenAt(calls, i) ==
    Cardinality({j \in 1..(i - 1) : calls[j].op = "begin_default_pass"})
      > Cardinality({j \in 1..(i - 1) : calls[j].op = "end_render_pass"})

\* C9: every draw callback issues begin pass, bind pipeline, bind buffers,
\* upload uniform, one instanced draw over 24 indices, end pass, commit,
\* once each and in this order; no draw call is outside an open pass, no
\* pass is open at the commit, and there is one commit per draw callback.
DrawIssuesOnePass ==
    LET calls == ctx.calls
        ops   == [i \in 1..Len(calls) |-> calls[i].op]
        At(o) == {i \in 1..Len(calls) : ops[i] = o}
    IN  /\ event.cb = "draw" =>
             /\ ops = << "begin_default_pass", "apply_pipeline", "apply_bindings",
                         "apply_uniforms", "draw", "end_render_pass",
                         "commit_frame" >>
             /\ calls[5].args[1] = 0
             /\ calls[5].args[2] = 24
             /\ calls[5].args[2] = Len(ctx.buffer_data[stage.bindings.index_buffer.id])
             /\ Cardinality(At("commit_frame")) = 1
        /\ event.cb # "draw" => At("commit_frame") = {}
        /\ \A i \in At("draw") : PassOpenAt(calls, i)
        /\ \A i \in At("commit_frame") : ~PassOpenAt(calls, i)

\* A draw callback has run to its commit.
FrameCommitted ==
    /\ event.cb = "draw"
    /\ Len(ctx.calls) = 7
    /\ ctx.calls[7].op = "commit_frame"

\* C10: the stored yaw_deg is strictly between -360 and 360 in every
\* reachable state.
YawBounded ==
    /\ -(360 * FP) < cam.yaw_deg
    /\ cam.yaw_deg < 360 * FP

\* A full spin from yaw 0 has wrapped back to 0.
FullSpinWrapped ==
    /\ IsMouse(event)
    /\ event.args[1] \in {-(3600 * FP), 3600 * FP}
    /\ cam.yaw_deg = 0
    /\ cam.pitch_deg = -(89 * FP)

====
